---- MODULE Spec2Model ----
(***************************************************************************)
(* Tic-Tac-Toe: the Board (board.py), the AI strategies (ai.py) and the    *)
(* Game controller (game.py), modelled as a state machine.                 *)
(***************************************************************************)
EXTENDS Integers, Sequences, FiniteSets

VARIABLES grid, current_player, player_type, current_strategy, stats,
          pc, first_player, games_left, batch_games, moves, last

vars == <<grid, current_player, player_type, current_strategy, stats,
          pc, first_player, games_left, batch_games, moves, last>>

(***************************************************************************)
(* Bounds                                                                  *)
(***************************************************************************)
\* how far outside [0, SIZE) the coordinates handed to make_move may lie
CoordSlack == 1
\* the largest num_games handed to simulate_games
MaxGames == 2
\* the most marks a caller driving the Game call by call puts on the board
MaxMarks == 2

(***************************************************************************)
(* board.py                                                                *)
(***************************************************************************)
SIZE == 3

Index == 0 .. (SIZE - 1)
Cells == Index \X Index
Players == {1, 2}
Coords == (0 - CoordSlack) .. (SIZE - 1 + CoordSlack)

\* np.zeros((SIZE, SIZE), dtype=int)
Zeros == [cell \in Cells |-> 0]

\* np.eye(SIZE, dtype=int)
Eye == [cell \in Cells |-> IF cell[1] = cell[2] THEN 1 ELSE 0]

FlipLR_unflipped(m) == m

\* np.fliplr(m): the columns of m in reverse order
FlipLR(m) == [cell \in Cells |-> m[<<cell[1], SIZE - 1 - cell[2]>>]]

\* pattern = zeros; pattern[row, :] = 1
RowPattern(row) == [cell \in Cells |-> IF cell[1] = row THEN 1 ELSE 0]

\* pattern = zeros; pattern[:, col] = 1
ColPattern(col) == [cell \in Cells |-> IF cell[2] = col THEN 1 ELSE 0]

\* Board._generate_winning_patterns: rows, columns, diagonal, anti-diagonal
winning_patterns ==
    [row \in 1 .. SIZE |-> RowPattern(row - 1)]
    \o [col \in 1 .. SIZE |-> ColPattern(col - 1)]
    \o <<Eye>>
    \o <<FlipLR(Eye)>>

NumPatterns == Len(winning_patterns)

\* Board.is_valid_move, mutated: the occupancy of the cell is not looked at
is_valid_move_ignoring_occupancy(g, row, col) ==
    (0 <= row /\ row < SIZE /\ 0 <= col /\ col < SIZE)

\* Board.is_valid_move
is_valid_move(g, row, col) ==
    IF ~(0 <= row /\ row < SIZE /\ 0 <= col /\ col < SIZE)
    THEN FALSE
    ELSE g[<<row, col>>] = 0

\* Board.make_move: the returned flag
make_move_ok(g, row, col, player) == is_valid_move(g, row, col)

\* Board.make_move: the grid after the call
make_move_grid(g, row, col, player) ==
    IF ~is_valid_move(g, row, col)
    THEN g
    ELSE [g EXCEPT ![<<row, col>>] = player]

\* the cells in the order the nested loops "for i ... for j ..." visit them
RowMajor == [n \in 1 .. (SIZE * SIZE) |-> <<(n - 1) \div SIZE, (n - 1) % SIZE>>]

\* Board.get_empty_cells: np.where lists the empty cells in row-major order
get_empty_cells(g) == SelectSeq(RowMajor, LAMBDA cell : g[cell] = 0)

\* Board.check_winner: np.all((pattern == 1) == (self.grid == player))
check_winner(g, player) ==
    \E k \in 1 .. NumPatterns :
        \A cell \in Cells :
            (winning_patterns[k][cell] = 1) = (g[cell] = player)

is_full_never(g) == FALSE

\* Board.is_full
is_full(g) == Len(get_empty_cells(g)) = 0

\* Board.is_game_over: <<is_over, winner>>, winner 0 standing for None
NoWinner == 0

is_game_over(g) ==
    IF check_winner(g, 1) THEN <<TRUE, 1>>
    ELSE IF check_winner(g, 2) THEN <<TRUE, 2>>
    ELSE IF is_full(g) THEN <<TRUE, NoWinner>>
    ELSE <<FALSE, NoWinner>>

\* Board.reset
board_reset == Zeros

(***************************************************************************)
(* ai.py                                                                   *)
(***************************************************************************)
\* None, for a move and for StrategyAI.current_strategy
NoCell == <<SIZE, SIZE>>
NoStrategy == 0

\* BaseAI.__init__: opponent_number
opponent_number(player_number) == IF player_number = 1 THEN 2 ELSE 1

\* the set of the elements of a sequence (what random.choice draws from)
Range(seq) == {seq[i] : i \in 1 .. Len(seq)}

\* an outcome of a get_move call: the move returned (NoCell when the call
\* raised), the committed pattern left behind, the priority that produced
\* the move, and the exception raised ("" when the call returned)
Outcome(move, strategy, path, err) ==
    [move |-> move, strategy |-> strategy, path |-> path, err |-> err]

random_get_move_unguarded(g) ==
    LET empty_cells == get_empty_cells(g)
    IN  IF Len(empty_cells) = 0
        THEN {Outcome(RowMajor[1], NoStrategy, "random", "")}
        ELSE {Outcome(cell, NoStrategy, "random", "") : cell \in Range(empty_cells)}

\* RandomAI.get_move: every outcome random.choice allows
random_get_move(g) ==
    LET empty_cells == get_empty_cells(g)
    IN  IF Len(empty_cells) = 0
        THEN {Outcome(NoCell, NoStrategy, "random", "ValueError")}
        ELSE {Outcome(cell, NoStrategy, "random", "") : cell \in Range(empty_cells)}

\* StrategyAI._find_winning_move: matching_cells and empty_cells of a pattern
matching_cells(g, pattern, player) ==
    SelectSeq(RowMajor, LAMBDA cell : pattern[cell] = 1 /\ g[cell] = player)

empty_cells_of(g, pattern) ==
    SelectSeq(RowMajor, LAMBDA cell : pattern[cell] = 1 /\ g[cell] = 0)

\* StrategyAI._find_winning_move: the test made on each pattern
is_winning_pattern(g, k, player) ==
    /\ Len(matching_cells(g, winning_patterns[k], player)) = 2
    /\ Len(empty_cells_of(g, winning_patterns[k])) = 1

\* StrategyAI._find_winning_move: the loop over the patterns from pattern k
\* on, returning at the first pattern that passes the test
RECURSIVE find_winning_move_from(_, _, _)
find_winning_move_from(g, player, k) ==
    IF k > NumPatterns THEN NoCell
    ELSE IF is_winning_pattern(g, k, player)
    THEN empty_cells_of(g, winning_patterns[k])[1]
    ELSE find_winning_move_from(g, player, k + 1)

\* StrategyAI._find_winning_move, mutated: the loop does not return at the
\* first pattern that passes the test, so the last one decides
RECURSIVE find_winning_move_last_from(_, _, _)
find_winning_move_last_from(g, player, k) ==
    IF k < 1 THEN NoCell
    ELSE IF is_winning_pattern(g, k, player)
    THEN empty_cells_of(g, winning_patterns[k])[1]
    ELSE find_winning_move_last_from(g, player, k - 1)

find_winning_move_last(g, player) ==
    find_winning_move_last_from(g, player, NumPatterns)

\* StrategyAI._find_winning_move
find_winning_move(g, player) == find_winning_move_from(g, player, 1)

\* StrategyAI._is_pattern_valid: no cell of the pattern holds the opponent
is_pattern_valid(g, player_number, k) ==
    \A cell \in Cells :
        ~(winning_patterns[k][cell] = 1 /\ g[cell] = opponent_number(player_number))

\* StrategyAI._get_available_patterns: the patterns (by index, in order)
\* that no opponent mark blocks
get_available_patterns(g, player_number) ==
    SelectSeq([k \in 1 .. NumPatterns |-> k],
              LAMBDA k : ~\E cell \in Cells :
                            /\ winning_patterns[k][cell] = 1
                            /\ g[cell] = opponent_number(player_number))

\* StrategyAI._choose_best_pattern: the score of a pattern
pattern_score(g, player_number, k) ==
    Cardinality({cell \in Cells :
                    winning_patterns[k][cell] = 1 /\ g[cell] = player_number})

\* StrategyAI._choose_best_pattern, mutated: any of the patterns, whatever
\* the scores
choose_best_pattern_any(g, player_number, patterns) ==
    IF Len(patterns) = 0 THEN {NoStrategy} ELSE Range(patterns)

\* StrategyAI._choose_best_pattern: every pattern the call may return; the
\* sort is stable, so the best pattern is the first with the highest score
choose_best_pattern(g, player_number, patterns) ==
    IF Len(patterns) = 0 THEN {NoStrategy}
    ELSE LET first_best ==
                 CHOOSE i \in 1 .. Len(patterns) :
                     /\ \A j \in 1 .. Len(patterns) :
                            pattern_score(g, player_number, patterns[j])
                                <= pattern_score(g, player_number, patterns[i])
                     /\ \A j \in 1 .. (i - 1) :
                            pattern_score(g, player_number, patterns[j])
                                < pattern_score(g, player_number, patterns[i])
         IN  IF pattern_score(g, player_number, patterns[first_best]) = 0
             THEN Range(patterns)
             ELSE {patterns[first_best]}

get_move_from_pattern_first_position(g, k) ==
    LET pattern_positions ==
            SelectSeq(RowMajor, LAMBDA cell : winning_patterns[k][cell] = 1)
    IN  pattern_positions[1]

\* StrategyAI._get_move_from_pattern: the first empty position of the pattern
get_move_from_pattern(g, k) ==
    LET pattern_positions ==
            SelectSeq(RowMajor, LAMBDA cell : winning_patterns[k][cell] = 1)
        open ==
            SelectSeq(pattern_positions,
                      LAMBDA pos : is_valid_move(g, pos[1], pos[2]))
    IN  IF Len(open) > 0 THEN open[1] ELSE NoCell

\* StrategyAI._get_strategic_move, mutated: the pattern is chosen anew at
\* every call
get_strategic_move_rechoosing(g, player_number, strategy) ==
    LET available_patterns == get_available_patterns(g, player_number)
    IN  IF Len(available_patterns) = 0
        THEN {<<NoCell, strategy>>}
        ELSE {<<IF s # NoStrategy THEN get_move_from_pattern(g, s) ELSE NoCell, s>>
                : s \in choose_best_pattern(g, player_number, available_patterns)}

\* StrategyAI._get_strategic_move: every <<move, current_strategy>> the call
\* may end with
get_strategic_move(g, player_number, strategy) ==
    LET available_patterns == get_available_patterns(g, player_number)
    IN  IF Len(available_patterns) = 0
        THEN {<<NoCell, strategy>>}
        ELSE LET chosen ==
                     IF strategy = NoStrategy
                     THEN choose_best_pattern(g, player_number, available_patterns)
                     ELSE {strategy}
                 rechosen ==
                     UNION {IF ~is_pattern_valid(g, player_number, s)
                            THEN choose_best_pattern(g, player_number,
                                                     available_patterns)
                            ELSE {s} : s \in chosen}
             IN  {<<IF s # NoStrategy THEN get_move_from_pattern(g, s) ELSE NoCell,
                    s>> : s \in rechosen}

\* StrategyAI.get_move, priorities 3 and 4: the strategic move, or a random
\* empty cell when there is none
strategic_or_random(g, player_number, strategy) ==
    UNION {IF sm[1] # NoCell
           THEN {Outcome(sm[1], sm[2], "strategic", "")}
           ELSE IF Len(get_empty_cells(g)) = 0
           THEN {Outcome(NoCell, sm[2], "random", "IndexError")}
           ELSE {Outcome(cell, sm[2], "random", "")
                   : cell \in Range(get_empty_cells(g))}
             : sm \in get_strategic_move(g, player_number, strategy)}

\* StrategyAI.get_move, priorities 2 to 4, mutated: priority 2 is left out
win_or_later_without_win(g, player_number, strategy) ==
    strategic_or_random(g, player_number, strategy)

\* StrategyAI.get_move, priorities 2 to 4
win_or_later(g, player_number, strategy) ==
    UNION {IF winning_move # NoCell
           THEN {Outcome(winning_move, NoStrategy, "win", "")}
           ELSE strategic_or_random(g, player_number, strategy)
             : winning_move \in {find_winning_move(g, player_number)}}

\* StrategyAI.get_move, mutated: the own win is looked for before the block
strategy_get_move_win_first(g, player_number, strategy) ==
    UNION {IF winning_move # NoCell
           THEN {Outcome(winning_move, NoStrategy, "win", "")}
           ELSE UNION {IF blocking_move # NoCell
                       THEN {Outcome(blocking_move, NoStrategy, "block", "")}
                       ELSE strategic_or_random(g, player_number, strategy)
                         : blocking_move \in
                             {find_winning_move(g, opponent_number(player_number))}}
             : winning_move \in {find_winning_move(g, player_number)}}

\* StrategyAI.get_move: every outcome of the call
strategy_get_move(g, player_number, strategy) ==
    UNION {IF blocking_move # NoCell
           THEN {Outcome(blocking_move, NoStrategy, "block", "")}
           ELSE win_or_later(g, player_number, strategy)
             : blocking_move \in {find_winning_move(g, opponent_number(player_number))}}

\* StrategyAI.reset_strategy
reset_strategy == NoStrategy

(***************************************************************************)
(* player.py and game.py                                                   *)
(***************************************************************************)
\* PlayerType
PlayerType == {"human", "ai_random", "ai_strategy"}

ai_players_everyone(types) == Players

\* Game.__init__: the players that get an entry in ai_players
ai_players(types) == {p \in Players : types[p] \in {"ai_random", "ai_strategy"}}

\* the StrategyAI instances among ai_players
strategy_ais(types) == {p \in Players : types[p] = "ai_strategy"}

\* GameStats.__init__ and GameStats.reset
stats_reset ==
    [player1_wins |-> 0, player2_wins |-> 0, draws |-> 0, total_games |-> 0]

\* GameResult: winner (NoWinner for None) and is_draw
GameResult(winner, is_draw) == [winner |-> winner, is_draw |-> is_draw]

record_result_draw_uncounted(st, result) ==
    LET counted == [st EXCEPT !.total_games = @ + 1]
    IN  IF result.is_draw THEN counted
        ELSE IF result.winner = 1 THEN [counted EXCEPT !.player1_wins = @ + 1]
        ELSE IF result.winner = 2 THEN [counted EXCEPT !.player2_wins = @ + 1]
        ELSE counted

\* GameStats.record_result
record_result(st, result) ==
    LET counted == [st EXCEPT !.total_games = @ + 1]
    IN  IF result.is_draw THEN [counted EXCEPT !.draws = @ + 1]
        ELSE IF result.winner = 1 THEN [counted EXCEPT !.player1_wins = @ + 1]
        ELSE IF result.winner = 2 THEN [counted EXCEPT !.player2_wins = @ + 1]
        ELSE counted

get_ai_move_any_player(g, player, types, strategy) ==
    IF types[player] = "ai_strategy"
    THEN strategy_get_move(g, player, strategy[player])
    ELSE {[o EXCEPT !.strategy = strategy[player]] : o \in random_get_move(g)}

\* Game.get_ai_move: every outcome of the call
get_ai_move(g, player, types, strategy) ==
    IF player \notin ai_players(types)
    THEN {Outcome(NoCell, strategy[player], "", "ValueError")}
    ELSE IF types[player] = "ai_random"
    THEN {[o EXCEPT !.strategy = strategy[player]] : o \in random_get_move(g)}
    ELSE strategy_get_move(g, player, strategy[player])

\* Game.make_move, mutated: the mark is written without asking the board
game_make_move_grid_unchecked(g, row, col, player) ==
    IF 0 <= row /\ row < SIZE /\ 0 <= col /\ col < SIZE
    THEN [g EXCEPT ![<<row, col>>] = player]
    ELSE g

\* Game.make_move: the flag returned and the grid after the call
game_make_move_ok(g, row, col, player) ==
    IF make_move_ok(g, row, col, player) THEN TRUE ELSE FALSE

game_make_move_grid(g, row, col, player) == make_move_grid(g, row, col, player)

switch_player_stays(player) == player

\* Game.switch_player
switch_player(player) == IF player = 1 THEN 2 ELSE 1

\* Game.check_game_over, mutated: a full board without a winner is not over
check_game_over_without_draw(g) ==
    LET over == is_game_over(g)
    IN  IF over[1] /\ over[2] # NoWinner
        THEN <<TRUE, GameResult(over[2], FALSE)>>
        ELSE <<FALSE, GameResult(NoWinner, FALSE)>>

\* Game.check_game_over: <<is_over, result>>; the result is read only when
\* is_over holds
check_game_over(g) ==
    LET over == is_game_over(g)
    IN  IF over[1]
        THEN IF over[2] = NoWinner
             THEN <<TRUE, GameResult(NoWinner, TRUE)>>
             ELSE <<TRUE, GameResult(over[2], FALSE)>>
        ELSE <<FALSE, GameResult(NoWinner, FALSE)>>

\* Game.reset, mutated: the AI strategies are not reset
game_reset_strategy_kept(types, strategy) == strategy

\* Game.reset: the strategies after "for ai ...: ai.reset_strategy()"
game_reset_strategy(types, strategy) ==
    [p \in Players |->
        IF p \in strategy_ais(types) THEN reset_strategy ELSE strategy[p]]

\* Game.reset: the active player after the call
game_reset_player == 1

\* play_single_game: the player that moves first
starting_player(first) == IF first = 1 THEN 1 ELSE 2

(***************************************************************************)
(* The record of the last call: what it was and what it returned           *)
(***************************************************************************)
NoCall ==
    [op |-> "init", arg |-> NoCell, who |-> 0, ok |-> TRUE, move |-> NoCell, path |-> "",
     err |-> "", over |-> FALSE, winner |-> NoWinner, draw |-> FALSE]

TypeOK ==
    /\ grid \in [Cells -> 0 .. 2]
    /\ current_player \in Players
    /\ player_type \in [Players -> PlayerType]
    /\ current_strategy \in [Players -> 0 .. NumPatterns]
    /\ pc \in {"idle", "batch", "playing"}
    /\ first_player \in Players
    /\ games_left \in Nat
    /\ batch_games \in Nat
    /\ moves \in Nat

(***************************************************************************)
(* One Board operation applied to an arbitrary board                       *)
(***************************************************************************)
GameDefaults ==
    /\ current_player = 1
    /\ current_strategy = [p \in Players |-> NoStrategy]
    /\ stats = stats_reset
    /\ pc = "idle"
    /\ first_player = 1
    /\ games_left = 0
    /\ batch_games = 0
    /\ moves = 0
    /\ last = NoCall

InitBoard ==
    /\ grid \in [Cells -> 0 .. 2]
    /\ player_type = [p \in Players |-> "human"]
    /\ GameDefaults

\* board.check_winner(player)
BoardCheckWinner(player) ==
    /\ last.op = "init"
    /\ last' = [NoCall EXCEPT !.op = "check_winner", !.who = player,
                              !.ok = check_winner(grid, player)]
    /\ UNCHANGED <<grid, current_player, player_type, current_strategy, stats,
                   pc, first_player, games_left,
                   batch_games, moves>>

\* board.is_game_over()
BoardIsGameOver ==
    /\ last.op = "init"
    /\ \E over \in {is_game_over(grid)} :
           last' = [NoCall EXCEPT !.op = "is_game_over",
                                  !.over = over[1], !.winner = over[2]]
    /\ UNCHANGED <<grid, current_player, player_type, current_strategy, stats,
                   pc, first_player, games_left,
                   batch_games, moves>>

\* board.make_move(row, col, player)
BoardMakeMove(row, col, player) ==
    /\ last.op = "init"
    /\ grid' = make_move_grid(grid, row, col, player)
    /\ last' = [NoCall EXCEPT !.op = "board_make_move",
                              !.arg = <<row, col>>, !.who = player,
                              !.ok = make_move_ok(grid, row, col, player)]
    /\ UNCHANGED <<current_player, player_type, current_strategy, stats,
                   pc, first_player, games_left,
                   batch_games, moves>>

NextBoard ==
    \/ \E player \in Players : BoardCheckWinner(player)
    \/ BoardIsGameOver
    \/ \E row \in Coords, col \in Coords, player \in Players :
            BoardMakeMove(row, col, player)

SpecBoard == InitBoard /\ [][NextBoard]_vars

(***************************************************************************)
(* One AI move requested for the active player on an arbitrary board, with *)
(* an arbitrary commitment carried over from earlier calls                 *)
(***************************************************************************)
InitAI ==
    /\ grid \in [Cells -> 0 .. 2]
    /\ current_player \in Players
    /\ \E kind \in {"ai_random", "ai_strategy"} :
           player_type = [p \in Players |->
                            IF p = current_player THEN kind ELSE "human"]
    /\ \E k \in 0 .. NumPatterns :
           current_strategy = [p \in Players |->
                                 IF p \in strategy_ais(player_type)
                                 THEN k ELSE NoStrategy]
    /\ stats = stats_reset
    /\ pc = "idle"
    /\ first_player = 1
    /\ games_left = 0
    /\ batch_games = 0
    /\ moves = 0
    /\ last = NoCall

AiGetMoveKeepingCommitment ==
    /\ last.op = "init"
    /\ \E o \in get_ai_move(grid, current_player, player_type, current_strategy) :
           /\ current_strategy' = [current_strategy EXCEPT ![current_player] =
                                     IF o.path = "strategic" THEN o.strategy ELSE @]
           /\ last' = [NoCall EXCEPT !.op = "get_move", !.who = current_player,
                                     !.ok = (o.err = ""), !.move = o.move,
                                     !.path = o.path, !.err = o.err]
    /\ UNCHANGED <<grid, current_player, player_type, stats,
                   pc, first_player, games_left,
                   batch_games, moves>>

\* ai.get_move(board) for the active player's AI
AiGetMove ==
    /\ last.op = "init"
    /\ \E o \in get_ai_move(grid, current_player, player_type, current_strategy) :
           /\ current_strategy' = [current_strategy EXCEPT ![current_player] = o.strategy]
           /\ last' = [NoCall EXCEPT !.op = "get_move", !.who = current_player,
                                     !.ok = (o.err = ""), !.move = o.move,
                                     !.path = o.path, !.err = o.err]
    /\ UNCHANGED <<grid, current_player, player_type, stats,
                   pc, first_player, games_left,
                   batch_games, moves>>

NextAI == AiGetMove

SpecAI == InitAI /\ [][NextAI]_vars

(***************************************************************************)
(* The Game controller driven call by call (as cli.py drives it)           *)
(***************************************************************************)
InitGame ==
    /\ grid = Zeros
    /\ player_type \in [Players -> PlayerType]
    /\ GameDefaults

GameMakeMoveAutoAdvance(row, col) ==
    /\ pc = "idle"
    /\ Cardinality({cell \in Cells : grid[cell] # 0}) < MaxMarks
    /\ grid' = game_make_move_grid(grid, row, col, current_player)
    /\ current_player' = IF game_make_move_ok(grid, row, col, current_player)
                         THEN switch_player(current_player)
                         ELSE current_player
    /\ last' = [NoCall EXCEPT !.op = "make_move",
                              !.ok = game_make_move_ok(grid, row, col, current_player)]
    /\ UNCHANGED <<player_type, current_strategy, stats,
                   pc, first_player, games_left, batch_games, moves>>

\* game.make_move(row, col)
GameMakeMove(row, col) ==
    /\ pc = "idle"
    /\ Cardinality({cell \in Cells : grid[cell] # 0}) < MaxMarks
    /\ grid' = game_make_move_grid(grid, row, col, current_player)
    /\ last' = [NoCall EXCEPT !.op = "make_move",
                              !.ok = game_make_move_ok(grid, row, col, current_player)]
    /\ UNCHANGED <<current_player, player_type, current_strategy, stats,
                   pc, first_player, games_left,
                   batch_games, moves>>

\* game.get_ai_move()
GameGetAiMove ==
    /\ pc = "idle"
    /\ \E o \in get_ai_move(grid, current_player, player_type, current_strategy) :
           /\ current_strategy' = [current_strategy EXCEPT ![current_player] = o.strategy]
           /\ last' = [NoCall EXCEPT !.op = "get_ai_move",
                                     !.ok = (o.err = ""), !.err = o.err]
    /\ UNCHANGED <<grid, current_player, player_type, stats,
                   pc, first_player, games_left,
                   batch_games, moves>>

\* game.switch_player()
GameSwitchPlayer ==
    /\ pc = "idle"
    /\ current_player' = switch_player(current_player)
    /\ last' = [NoCall EXCEPT !.op = "switch_player"]
    /\ UNCHANGED <<grid, player_type, current_strategy, stats,
                   pc, first_player, games_left,
                   batch_games, moves>>

\* game.check_game_over()
GameCheckGameOver ==
    /\ pc = "idle"
    /\ \E over \in {check_game_over(grid)} :
           last' = [NoCall EXCEPT !.op = "check_game_over",
                                  !.over = over[1],
                                  !.winner = over[2].winner,
                                  !.draw = over[2].is_draw]
    /\ UNCHANGED <<grid, current_player, player_type, current_strategy, stats,
                   pc, first_player, games_left,
                   batch_games, moves>>

\* game.reset()
GameReset ==
    /\ pc = "idle"
    /\ grid' = board_reset
    /\ current_player' = game_reset_player
    /\ current_strategy' = game_reset_strategy(player_type, current_strategy)
    /\ last' = [NoCall EXCEPT !.op = "reset"]
    /\ UNCHANGED <<player_type, stats, pc, first_player, games_left,
                   batch_games, moves>>

NextApi ==
    \/ \E row \in 0 .. SIZE, col \in 0 .. SIZE : GameMakeMove(row, col)
    \/ GameGetAiMove
    \/ GameSwitchPlayer
    \/ GameCheckGameOver
    \/ GameReset

SpecApi == InitGame /\ [][NextApi]_vars

(***************************************************************************)
(* play_single_game and simulate_games, one loop iteration per step        *)
(***************************************************************************)
\* pc = "idle":    no call in progress
\* pc = "batch":   simulate_games is at the head of its for loop
\* pc = "playing": play_single_game is at the head of its while loop
\* games_left counts the iterations simulate_games still has to make; it is
\* 0 while play_single_game runs on a direct call.
\* batch_games is the num_games of the simulate_games call that is running or
\* has returned; it is 0 when there is none or an exception ended it.
\* moves counts the iterations of the while loop of the running game.

\* play_single_game: self.reset(); self.current_player = ...
EnterGame(first) ==
    /\ grid' = board_reset
    /\ current_strategy' = game_reset_strategy(player_type, current_strategy)
    /\ current_player' = starting_player(first)
    /\ moves' = 0
    /\ pc' = "playing"

\* game.play_single_game(first) called directly
PlaySingleGame(first) ==
    /\ pc = "idle"
    /\ EnterGame(first)
    /\ first_player' = first
    /\ games_left' = 0
    /\ batch_games' = 0
    /\ last' = [NoCall EXCEPT !.op = "enter_game"]
    /\ UNCHANGED <<player_type, stats>>

\* game.simulate_games(num_games, first): self.stats.reset()
SimulateGames(num_games, first) ==
    /\ pc = "idle"
    /\ stats' = stats_reset
    /\ games_left' = num_games
    /\ batch_games' = num_games
    /\ first_player' = first
    /\ pc' = "batch"
    /\ last' = [NoCall EXCEPT !.op = "enter_batch"]
    /\ UNCHANGED <<grid, current_player, player_type, current_strategy, moves>>

\* simulate_games: the head of "for _ in range(num_games)": the next game
\* is entered, or the statistics are returned
BatchStep ==
    /\ pc = "batch"
    /\ IF games_left = 0
       THEN /\ pc' = "idle"
            /\ last' = [NoCall EXCEPT !.op = "simulate_games"]
            /\ UNCHANGED <<grid, current_player, current_strategy, moves>>
       ELSE /\ EnterGame(first_player)
            /\ last' = [NoCall EXCEPT !.op = "enter_game"]
    /\ UNCHANGED <<player_type, stats, first_player, games_left, batch_games>>

\* play_single_game returns result: to simulate_games, which records it, or
\* to the caller
ReturnResult(result) ==
    IF games_left > 0
    THEN /\ stats' = record_result(stats, result)
         /\ games_left' = games_left - 1
         /\ pc' = "batch"
         /\ UNCHANGED batch_games
    ELSE /\ pc' = "idle"
         /\ UNCHANGED <<stats, games_left, batch_games>>

\* an exception leaves play_single_game (and simulate_games) to the caller
Raise ==
    /\ pc' = "idle"
    /\ games_left' = 0
    /\ batch_games' = 0
    /\ UNCHANGED <<grid, current_player, stats>>

\* play_single_game: one iteration of "while True"
Turn ==
    /\ pc = "playing"
    /\ moves' = moves + 1
    /\ IF current_player \in ai_players(player_type)
       THEN \E o \in get_ai_move(grid, current_player, player_type, current_strategy) :
              /\ current_strategy' = [current_strategy EXCEPT ![current_player] = o.strategy]
              /\ IF o.err # ""
                 THEN /\ Raise
                      /\ last' = [NoCall EXCEPT !.op = "play_single_game",
                                                !.ok = FALSE, !.err = o.err]
                 ELSE \E placed \in {game_make_move_grid(grid, o.move[1], o.move[2],
                                                         current_player)} :
                      \E over \in {check_game_over(placed)} :
                          /\ grid' = placed
                          /\ IF over[1]
                             THEN /\ ReturnResult(over[2])
                                  /\ UNCHANGED current_player
                             ELSE /\ current_player' = switch_player(current_player)
                                  /\ UNCHANGED <<stats, games_left, batch_games, pc>>
                          /\ last' = [NoCall EXCEPT
                                        !.op = IF over[1] THEN "play_single_game"
                                                          ELSE "turn",
                                        !.ok = game_make_move_ok(grid, o.move[1],
                                                   o.move[2], current_player),
                                        !.over = over[1],
                                        !.winner = over[2].winner,
                                        !.draw = over[2].is_draw]
       ELSE /\ Raise
            /\ last' = [NoCall EXCEPT !.op = "play_single_game",
                                      !.ok = FALSE, !.err = "ValueError"]
            /\ UNCHANGED current_strategy
    /\ UNCHANGED <<player_type, first_player>>

Init == InitGame

Next ==
    \/ \E first \in Players : PlaySingleGame(first)
    \/ \E num_games \in 0 .. MaxGames, first \in Players :
            SimulateGames(num_games, first)
    \/ BatchStep
    \/ Turn

Spec == Init /\ [][Next]_vars

(***************************************************************************)
(* The vocabulary of the properties: lines of the board as coordinates     *)
(***************************************************************************)
\* the 8 lines: rows top to bottom, columns left to right, main diagonal,
\* anti-diagonal; each in its own coordinate order
Lines ==
    << <<<<0, 0>>, <<0, 1>>, <<0, 2>>>>,
       <<<<1, 0>>, <<1, 1>>, <<1, 2>>>>,
       <<<<2, 0>>, <<2, 1>>, <<2, 2>>>>,
       <<<<0, 0>>, <<1, 0>>, <<2, 0>>>>,
       <<<<0, 1>>, <<1, 1>>, <<2, 1>>>>,
       <<<<0, 2>>, <<1, 2>>, <<2, 2>>>>,
       <<<<0, 0>>, <<1, 1>>, <<2, 2>>>>,
       <<<<0, 2>>, <<1, 1>>, <<2, 0>>>> >>

LineSet(k) == {Lines[k][i] : i \in 1 .. 3}

\* player holds all three cells of line k, whatever the other cells hold
HoldsLineK(g, player, k) == \A cell \in LineSet(k) : g[cell] = player

HoldsLine(g, player) == \E k \in 1 .. 8 : HoldsLineK(g, player, k)

Marks(g, player) == Cardinality({cell \in Cells : g[cell] = player})

BoardFull(g) == \A cell \in Cells : g[cell] # 0

InRange(row, col) == row \in 0 .. 2 /\ col \in 0 .. 2

(***************************************************************************)
(* Properties of the Board                                                 *)
(***************************************************************************)
\* C1: check_winner(p) returns true if and only if some winning pattern has
\* all 3 of its coordinates holding p's mark, whatever the other 6 cells hold.
C1_CheckWinnerIffHoldsLine ==
    last.op = "check_winner" => (last.ok <=> HoldsLine(grid, last.who))

\* C3: is_game_over returns (true, no winner) only when every cell is
\* occupied and neither player holds all three cells of a winning pattern.
C3_DrawOnlyWhenFullAndNoLine ==
    (last.op = "is_game_over" /\ last.over /\ last.winner = NoWinner)
        => (BoardFull(grid) /\ ~HoldsLine(grid, 1) /\ ~HoldsLine(grid, 2))

\* C5: make_move on an out-of-range coordinate or an occupied cell returns
\* false and leaves every cell unchanged; on an in-range empty cell it
\* returns true, sets exactly that cell to player and leaves the other 8.
C5_MakeMoveContract ==
    [][last'.op = "board_make_move" =>
          LET row == last'.arg[1]
              col == last'.arg[2]
          IN  IF InRange(row, col) /\ grid[<<row, col>>] = 0
              THEN /\ last'.ok
                   /\ grid'[<<row, col>>] = last'.who
                   /\ \A cell \in Cells \ {<<row, col>>} : grid'[cell] = grid[cell]
              ELSE /\ ~last'.ok
                   /\ grid' = grid]_vars

\* a make_move with a negative row on a board that has marks was rejected
C5_Witness ==
    /\ last.op = "board_make_move"
    /\ last.arg[1] < 0
    /\ ~last.ok
    /\ \E cell \in Cells : grid[cell] # 0

(***************************************************************************)
(* Properties of the games played by play_single_game                      *)
(***************************************************************************)
\* C2: the game ends immediately after the move by which a player first
\* holds all three cells of a winning pattern: no further move is requested
\* on a board on which some player already holds a complete pattern.
C2_NoMoveAfterCompleteLine ==
    pc = "playing" => (~HoldsLine(grid, 1) /\ ~HoldsLine(grid, 2))

\* C4: whenever play_single_game returns a draw, the final board is full and
\* neither player holds all three cells of a winning pattern.
C4_DrawMeansFullAndNoLine ==
    (last.op = "play_single_game" /\ last.ok /\ last.draw)
        => (BoardFull(grid) /\ ~HoldsLine(grid, 1) /\ ~HoldsLine(grid, 2))

\* C10: at the start of every game run by play_single_game, before the first
\* move is requested, the board is empty, the active player is first_player
\* and every StrategyAI has no committed pattern.
C10_FreshStartOfEveryGame ==
    (pc = "playing" /\ moves = 0)
        => /\ \A cell \in Cells : grid[cell] = 0
           /\ current_player = first_player
           /\ \A p \in Players : current_strategy[p] = NoStrategy

\* the second game of a batch is about to start, with a StrategyAI playing
C10_Witness ==
    /\ pc = "playing"
    /\ moves = 0
    /\ stats.total_games >= 1
    /\ \E p \in Players : player_type[p] = "ai_strategy"
    /\ first_player = 2

(***************************************************************************)
(* Properties of the Game driven call by call                              *)
(***************************************************************************)
\* C6: over any sequence of make_move, get_ai_move, switch_player and
\* check_game_over calls, an occupied cell keeps its mark until a reset, and
\* each make_move changes at most one cell, from empty to the current
\* player's number (1 or 2).
C6_OccupiedCellsKeepTheirMark ==
    [][/\ last'.op # "reset" =>
            \A cell \in Cells : grid[cell] # 0 => grid'[cell] = grid[cell]
       /\ last'.op = "make_move" =>
            /\ Cardinality({cell \in Cells : grid'[cell] # grid[cell]}) <= 1
            /\ \A cell \in Cells :
                   grid'[cell] # grid[cell] =>
                       /\ grid[cell] = 0
                       /\ grid'[cell] = current_player
                       /\ current_player \in {1, 2}]_vars

\* player 2 has placed a mark after player 1, whose mark is still there
C6_Witness ==
    /\ last.op = "make_move"
    /\ last.ok
    /\ current_player = 2
    /\ Marks(grid, 1) >= 1
    /\ Marks(grid, 2) >= 1

(***************************************************************************)
(* Properties of StrategyAI.get_move                                       *)
(***************************************************************************)
Other(player) == 3 - player

\* line k holds exactly 2 marks of player and its 3rd cell is empty
Threat(g, player, k) ==
    /\ Cardinality({cell \in LineSet(k) : g[cell] = player}) = 2
    /\ Cardinality({cell \in LineSet(k) : g[cell] = 0}) = 1

HasThreat(g, player) == \E k \in 1 .. 8 : Threat(g, player, k)

\* the empty cell of the first line, in enumeration order, that is a threat
FirstThreatCell(g, player) ==
    LET k == CHOOSE i \in 1 .. 8 :
                 /\ Threat(g, player, i)
                 /\ \A j \in 1 .. 8 : Threat(g, player, j) => i <= j
    IN  CHOOSE cell \in LineSet(k) : g[cell] = 0

StrategyCall == last.op = "get_move" /\ player_type[last.who] = "ai_strategy"

\* the board with exactly the given marks of player 1 and player 2
BoardWith(ones, twos) ==
    [cell \in Cells |-> IF cell \in ones THEN 1 ELSE IF cell \in twos THEN 2 ELSE 0]

\* C7: when some winning pattern has exactly 2 opponent marks and an empty
\* 3rd cell, get_move returns the empty cell of the first such pattern in
\* enumeration order, whether or not the AI has a winning cell of its own;
\* with the opponent on (0,0) and (1,1) and (2,2) empty, the AI plays (2,2).
C7_BlocksFirstThreat ==
    /\ (StrategyCall /\ HasThreat(grid, Other(last.who)))
          => (last.ok /\ last.move = FirstThreatCell(grid, Other(last.who)))
    /\ (StrategyCall /\ last.who = 1
            /\ grid = BoardWith({}, {<<0, 0>>, <<1, 1>>}))
          => last.move = <<2, 2>>

\* the AI could have won, a different cell blocks the opponent, and the
\* block was played
C7_Witness ==
    /\ StrategyCall
    /\ HasThreat(grid, Other(last.who))
    /\ HasThreat(grid, last.who)
    /\ FirstThreatCell(grid, last.who) # FirstThreatCell(grid, Other(last.who))
    /\ last.move = FirstThreatCell(grid, Other(last.who))

\* C8: when no winning pattern has exactly 2 opponent marks plus an empty
\* cell but some pattern has exactly 2 own marks plus an empty cell,
\* get_move returns the empty cell of the first such own pattern, whatever
\* pattern was committed.
C8_WinsWhenNothingToBlock ==
    (StrategyCall /\ ~HasThreat(grid, Other(last.who)) /\ HasThreat(grid, last.who))
        => (last.ok /\ last.move = FirstThreatCell(grid, last.who))

\* two own patterns can be completed, nothing is to block, and the cell of
\* the first was played
C8_Witness ==
    /\ StrategyCall
    /\ ~HasThreat(grid, Other(last.who))
    /\ \E i \in 1 .. 8, j \in 1 .. 8 :
           /\ i < j
           /\ Threat(grid, last.who, i)
           /\ Threat(grid, last.who, j)
           /\ LineSet(i) \cap LineSet(j) \cap {cell \in Cells : grid[cell] = 0} = {}
    /\ last.move = FirstThreatCell(grid, last.who)

\* the board of the example: player 1 on (0,0), (0,1); player 2 on (1,0), (1,1)
Board9 == BoardWith({<<0, 0>>, <<0, 1>>}, {<<1, 0>>, <<1, 1>>})

\* C9 as stated: on that board there is no immediate threat to block, and
\* StrategyAI as player 1 makes a commitment-based move that lands inside a
\* winning pattern already containing (0,0) or (0,1).
C9_CommitmentMoveOnExample ==
    (StrategyCall /\ last.who = 1 /\ grid = Board9)
        => /\ ~HasThreat(grid, 2)
           /\ last.path = "strategic"
           /\ \E k \in 1 .. 8 :
                  /\ last.move \in LineSet(k)
                  /\ (<<0, 0>> \in LineSet(k) \/ <<0, 1>> \in LineSet(k))

\* C9 amended: on that board row 1 holds two marks of player 2 and (1,2) is
\* empty, so StrategyAI as player 1 blocks at (1,2) (although (0,2) would
\* win) and is left with no committed pattern.
C9_BlocksOnExample ==
    (StrategyCall /\ last.who = 1 /\ grid = Board9)
        => /\ Threat(grid, 2, 2)
           /\ last.ok
           /\ last.move = <<1, 2>>
           /\ last.path = "block"
           /\ current_strategy[1] = NoStrategy

\* StrategyAI as player 1 has been asked for a move on the example board
C9_Witness ==
    /\ StrategyCall
    /\ last.who = 1
    /\ grid = Board9
    /\ last.move = <<1, 2>>

(***************************************************************************)
(* C11: the statistics of a batch                                          *)
(***************************************************************************)
Counters == {"player1_wins", "player2_wins", "draws"}

\* C11: simulate_games(n) returns statistics with total_games = n and
\* player1_wins + player2_wins + draws = n, whatever the statistics held
\* before the call; and every game of the batch that returns a result adds
\* one to total_games and to exactly one of the three counters.
C11_BatchStatsAddUp ==
    [][ /\ last'.op = "simulate_games"
            => /\ stats'.total_games = batch_games'
               /\ stats'.player1_wins + stats'.player2_wins + stats'.draws
                      = batch_games'
        /\ (pc = "playing" /\ pc' = "batch")
            => /\ stats'.total_games = stats.total_games + 1
               /\ \E f \in Counters :
                      /\ stats'[f] = stats[f] + 1
                      /\ \A other \in Counters \ {f} : stats'[other] = stats[other]
      ]_vars

\* a batch of two games or more has returned with a win and a draw counted
C11_Witness ==
    /\ last.op = "simulate_games"
    /\ batch_games >= 2
    /\ stats.draws >= 1
    /\ stats.player1_wins + stats.player2_wins >= 1

(***************************************************************************)
(* Properties of play_single_game                                          *)
(***************************************************************************)
\* play_single_game is at the head of its loop, or has returned a result
GameUnderWay == pc = "playing" \/ (last.op = "play_single_game" /\ last.ok)

\* C12: in play_single_game the players alternate strictly, first_player
\* moving first: after every move the board holds as many marks as moves
\* were made, the first player's marks are as many as the other player's or
\* exactly one more, and the player to move next is first_player after an
\* even number of moves and the other player after an odd number.
C12_StrictAlternation ==
    GameUnderWay
        => /\ Marks(grid, 1) + Marks(grid, 2) = moves
           /\ Marks(grid, first_player) = (moves + 1) \div 2
           /\ Marks(grid, Other(first_player)) = moves \div 2
           /\ Marks(grid, first_player) - Marks(grid, Other(first_player)) \in {0, 1}
           /\ pc = "playing"
                => current_player = IF moves % 2 = 0 THEN first_player
                                    ELSE Other(first_player)

\* a game that player 2 started was played to the ninth move
C12_Witness ==
    /\ last.op = "play_single_game"
    /\ last.ok
    /\ first_player = 2
    /\ moves = 9
    /\ Marks(grid, 2) = 5
    /\ Marks(grid, 1) = 4

(***************************************************************************)
(* Properties of the moves the AIs select                                  *)
(***************************************************************************)
\* C13: on a board with at least one empty cell, get_move of StrategyAI
\* (with any commitment carried over) and of RandomAI returns the in-range
\* coordinates of an empty cell, so that Game.make_move of the selected move
\* succeeds and places the mark of the player that asked.
C13_AiSelectsEmptyCell ==
    (last.op = "get_move" /\ ~BoardFull(grid))
        => /\ last.ok
           /\ InRange(last.move[1], last.move[2])
           /\ grid[last.move] = 0
           /\ game_make_move_ok(grid, last.move[1], last.move[2], last.who)
           /\ game_make_move_grid(grid, last.move[1], last.move[2],
                                  last.who)[last.move] = last.who

\* StrategyAI followed its committed pattern on a board where it already
\* holds two cells
C13_Witness ==
    /\ StrategyCall
    /\ last.path = "strategic"
    /\ Marks(grid, last.who) >= 2
    /\ last.ok
    /\ grid[last.move] = 0

(***************************************************************************)
(* Properties of the Game controller driven call by call                   *)
(***************************************************************************)
\* C14: Game.get_ai_move fails with an error whenever the active player is
\* human, and then leaves the board, the active player and the committed
\* pattern of every AI unchanged; it returns a move only when the active
\* player is AI-typed.
C14_GetAiMoveNeedsAiPlayer ==
    [][ last'.op = "get_ai_move"
          => /\ player_type[current_player] = "human"
                => /\ ~last'.ok
                   /\ last'.err = "ValueError"
                   /\ grid' = grid
                   /\ current_player' = current_player
                   /\ current_strategy' = current_strategy
             /\ last'.ok => current_player \in ai_players(player_type)
      ]_vars

\* get_ai_move has failed for a human player while the StrategyAI of the
\* other player holds a committed pattern
C14_Witness ==
    /\ last.op = "get_ai_move"
    /\ ~last.ok
    /\ player_type[current_player] = "human"
    /\ current_strategy[Other(current_player)] # NoStrategy

HasHuman == \E p \in Players : player_type[p] = "human"

\* C15: in a Game with at least one human player, play_single_game ends in
\* a hard failure for either first_player and never returns a GameResult:
\* the loop is left by the error at its first or second iteration.
C15_AutoPlayWithHumanFails ==
    HasHuman
        => /\ last.op = "play_single_game"
                => /\ ~last.ok
                   /\ last.err = "ValueError"
                   /\ ~last.over
           /\ pc = "playing" => moves <= 1
           /\ stats = stats_reset

\* the AI that moved first has placed its mark and play_single_game failed
\* at the turn of the human player
C15_Witness ==
    /\ HasHuman
    /\ last.op = "play_single_game"
    /\ last.err = "ValueError"
    /\ moves = 2
    /\ Marks(grid, first_player) = 1
    /\ player_type[first_player] = "ai_strategy"

\* C16: Game.make_move never changes the active player, whether the move
\* succeeds or fails; a successful move places the mark of the player that
\* was active when it was called on one empty cell and a failed move leaves
\* the board alone; and between two resets the active player changes only
\* through switch_player.
C16_MakeMoveKeepsActivePlayer ==
    [][ /\ last'.op = "make_move"
            => /\ current_player' = current_player
               /\ last'.ok
                    => \E cell \in Cells :
                           /\ grid[cell] = 0
                           /\ grid' = [grid EXCEPT ![cell] = current_player]
               /\ ~last'.ok => grid' = grid
        /\ (current_player' # current_player /\ last'.op # "reset")
            => last'.op = "switch_player"
      ]_vars

\* player 2, made active by switch_player, has placed its mark and is still
\* the active player
C16_Witness ==
    /\ last.op = "make_move"
    /\ last.ok
    /\ current_player = 2
    /\ Marks(grid, 2) >= 1

\* C17: during play_single_game and simulate_games no AI is asked for a
\* move on a board with no empty cell: the board is never full at the head
\* of the loop, and the only failure that leaves play_single_game is the
\* one raised for a human player, never the one of an AI without a cell to
\* choose.
C17_NoAiMoveOnFullBoard ==
    /\ pc = "playing" => ~BoardFull(grid)
    /\ (last.op = "play_single_game" /\ ~last.ok)
        => /\ player_type[current_player] = "human"
           /\ last.err = "ValueError"
           /\ ~BoardFull(grid)

\* the ninth move filled the board and the terminal check ended the game
C17_Witness ==
    /\ last.op = "play_single_game"
    /\ last.ok
    /\ last.over
    /\ BoardFull(grid)
    /\ moves = 9
    /\ pc # "playing"

(***************************************************************************)
(* Further properties of the Board                                         *)
(***************************************************************************)
\* C18: on every board where player 1 and player 2 both hold all three cells
\* of some winning pattern, whatever the remaining cells hold, is_game_over
\* returns (True, 1): the win of player 1 takes precedence.
C18_PlayerOneWinsTie ==
    (last.op = "is_game_over" /\ HoldsLine(grid, 1) /\ HoldsLine(grid, 2))
        => /\ last.over
           /\ last.winner = 1

\* the board where exactly the 3 cells of line k hold the mark of player
LineBoard(k, player) ==
    [cell \in Cells |-> IF cell \in LineSet(k) THEN player ELSE 0]

\* C19: for each of the 8 winning patterns and each player p, on the board
\* where exactly the 3 cells of the pattern hold p's mark and the other 6
\* cells are empty, check_winner(p) is true and check_winner of the other
\* player is false.
C19_ExactLineWins ==
    \A k \in 1 .. 8, p \in Players :
        (last.op = "check_winner" /\ grid = LineBoard(k, p))
            => last.ok = (last.who = p)

\* check_winner(2) has returned true for the anti-diagonal of player 2
C19_Witness ==
    /\ last.op = "check_winner"
    /\ grid = LineBoard(8, 2)
    /\ last.who = 2
    /\ last.ok

(***************************************************************************)
(* Properties of RandomAI                                                  *)
(***************************************************************************)
RandomCall == last.op = "get_move" /\ player_type[last.who] = "ai_random"

\* C20: RandomAI.get_move on a board with no empty cell signals an error
\* and returns no coordinate; on every board with at least one empty cell
\* it signals no error.
C20_RandomAiErrorIffFull ==
    RandomCall
        => /\ BoardFull(grid)
                => /\ ~last.ok
                   /\ last.err # ""
                   /\ last.move = NoCell
           /\ ~BoardFull(grid)
                => /\ last.ok
                   /\ last.err = ""

\* RandomAI has been asked for a move on a full board and raised its error
C20_Witness ==
    /\ RandomCall
    /\ BoardFull(grid)
    /\ last.err = "ValueError"

(***************************************************************************)
(* Properties of the errors                                                *)
(***************************************************************************)
\* the kinds of error get_ai_move raises when the active player is player
\* (as play_single_game, game.py line 197, raises the same class too)
PreconditionErrors(player) ==
    {o.err : o \in get_ai_move(grid, player, player_type, current_strategy)}

\* C21: the failure signalled for a precondition violation (get_ai_move for
\* a human active player) is of a different kind from the failure RandomAI
\* signals on a full board, and both are errors raised, unlike the boolean
\* failure of an invalid move.
C21_ErrorKindsDiffer ==
    (RandomCall /\ BoardFull(grid) /\ player_type[Other(last.who)] = "human")
        => /\ last.err # ""
           /\ \A kind \in PreconditionErrors(Other(last.who)) :
                  /\ kind # ""
                  /\ kind # last.err

(***************************************************************************)
(* Properties of the commitment of StrategyAI                              *)
(***************************************************************************)
\* pattern k holds no mark of the opponent of player
OpponentFree(g, player, k) == \A cell \in LineSet(k) : g[cell] # Other(player)

\* a loop iteration of play_single_game in which a StrategyAI is asked for
\* its move
StrategyTurn == pc = "playing" /\ player_type[current_player] = "ai_strategy"

\* C22: in a game played through the Game controller, after every get_move
\* call of a StrategyAI its committed pattern is none or a winning pattern
\* that holds no opponent mark, also when no opponent-free pattern remains
\* and the AI falls back to a random cell.
C22_CommitmentStaysOpponentFree ==
    [][ StrategyTurn
          => \/ current_strategy'[current_player] = NoStrategy
             \/ OpponentFree(grid', current_player,
                             current_strategy'[current_player])
      ]_vars

\* C23: every get_move call of StrategyAI that returns through the block
\* path or the win path leaves the AI with no committed pattern, whatever
\* commitment it held before the call.
C23_BlockAndWinClearCommitment ==
    [][ (last'.op = "get_move" /\ player_type[last'.who] = "ai_strategy"
            /\ last'.path \in {"block", "win"})
          => current_strategy'[last'.who] = NoStrategy
      ]_vars

\* StrategyAI has taken the winning cell and holds no commitment
C23_Witness ==
    /\ StrategyCall
    /\ last.path = "win"
    /\ last.ok
    /\ current_strategy[last.who] = NoStrategy

\* the first empty cell of line k in the line's own coordinate order
FirstEmptyOf(g, k) ==
    Lines[k][CHOOSE i \in 1 .. 3 :
                 /\ g[Lines[k][i]] = 0
                 /\ \A j \in 1 .. (i - 1) : g[Lines[k][j]] # 0]

OwnMarksIn(g, player, k) == Cardinality({cell \in LineSet(k) : g[cell] = player})

\* C24: if a get_move call of StrategyAI takes neither the block nor the win
\* path and the pattern committed before the call holds no opponent mark,
\* the pattern committed after the call is the same one, and if it has an
\* empty cell the move returned is its first empty cell in the pattern's own
\* coordinate order.
C24_ValidCommitmentIsKept ==
    [][ (/\ last'.op = "get_move"
         /\ player_type[current_player] = "ai_strategy"
         /\ last'.path \notin {"block", "win"}
         /\ current_strategy[current_player] # NoStrategy
         /\ OpponentFree(grid, current_player, current_strategy[current_player]))
          => /\ current_strategy'[current_player] = current_strategy[current_player]
             /\ (\E cell \in LineSet(current_strategy[current_player]) : grid[cell] = 0)
                  => /\ last'.path = "strategic"
                     /\ last'.move = FirstEmptyOf(grid, current_strategy[current_player])
      ]_vars

\* StrategyAI has followed a commitment that a fresh choice would not have
\* made: another opponent-free pattern holds more of its marks
C24_Witness ==
    /\ StrategyCall
    /\ last.path = "strategic"
    /\ current_strategy[last.who] # NoStrategy
    /\ last.move = FirstEmptyOf(grid, current_strategy[last.who])
    /\ \E j \in 1 .. 8 :
           /\ OpponentFree(grid, last.who, j)
           /\ OwnMarksIn(grid, last.who, j)
                > OwnMarksIn(grid, last.who, current_strategy[last.who])

\* C25: when StrategyAI selects a new commitment (nothing to block or win,
\* no committed pattern or one that holds an opponent mark, and at least one
\* opponent-free pattern), the pattern selected holds no opponent mark and
\* holds as many marks of the AI as any opponent-free pattern does; any
\* opponent-free pattern may be selected only when none holds a mark of the AI.
C25_NewCommitmentIsBest ==
    [][ (/\ last'.op = "get_move"
         /\ player_type[current_player] = "ai_strategy"
         /\ last'.path \notin {"block", "win"}
         /\ \/ current_strategy[current_player] = NoStrategy
            \/ ~OpponentFree(grid, current_player, current_strategy[current_player])
         /\ \E k \in 1 .. 8 : OpponentFree(grid, current_player, k))
          => /\ current_strategy'[current_player] \in 1 .. 8
             /\ OpponentFree(grid, current_player, current_strategy'[current_player])
             /\ \A k \in 1 .. 8 :
                    OpponentFree(grid, current_player, k)
                        => OwnMarksIn(grid, current_player, k)
                             <= OwnMarksIn(grid, current_player,
                                           current_strategy'[current_player])
      ]_vars

\* StrategyAI is committed to a pattern that holds one of its marks while
\* another opponent-free pattern holds none
C25_Witness ==
    /\ StrategyCall
    /\ last.path = "strategic"
    /\ current_strategy[last.who] # NoStrategy
    /\ OpponentFree(grid, last.who, current_strategy[last.who])
    /\ OwnMarksIn(grid, last.who, current_strategy[last.who]) = 1
    /\ \A k \in 1 .. 8 :
           OpponentFree(grid, last.who, k) => OwnMarksIn(grid, last.who, k) <= 1
    /\ \E k \in 1 .. 8 :
           OpponentFree(grid, last.who, k) /\ OwnMarksIn(grid, last.who, k) = 0

(***************************************************************************)
(* Termination of play_single_game                                         *)
(***************************************************************************)
\* C26: every run of play_single_game with two AI players, whatever their
\* kinds, the first player and the random choices, returns a result after
\* at most 9 moves, each of which places a mark on an empty cell: at the
\* head of the loop at most 8 moves were made, each has added one mark, and
\* the move asked for next is returned without error and names an empty cell;
\* the call ends only by returning the result of a game that is over.
C26_GameEndsWithinNineMoves ==
    ~HasHuman
        => /\ pc = "playing"
                => /\ moves <= 8
                   /\ Marks(grid, 1) + Marks(grid, 2) = moves
                   /\ get_ai_move(grid, current_player, player_type,
                                  current_strategy) # {}
                   /\ \A o \in get_ai_move(grid, current_player, player_type,
                                           current_strategy) :
                          /\ o.err = ""
                          /\ InRange(o.move[1], o.move[2])
                          /\ grid[o.move] = 0
           /\ last.op = "play_single_game"
                => /\ last.ok
                   /\ last.over
                   /\ moves \in 1 .. 9
                   /\ Marks(grid, 1) + Marks(grid, 2) = moves

\* two StrategyAIs have played a game to its ninth move, which ended it
C26_Witness ==
    /\ player_type = [p \in Players |-> "ai_strategy"]
    /\ last.op = "play_single_game"
    /\ last.over
    /\ moves = 9
    /\ pc # "playing"

====
